---- MODULE Spec2Model ----
(***************************************************************************)
(* DrawByCircles (src/main.py): a chain of rotating circles whose last     *)
(* centre traces a curve on a persistent surface.                          *)
(*                                                                         *)
(* Numbers.  The program keeps radii, coordinates and mask offsets as      *)
(* Python floats.  Every length of the model is a fixed-point number with  *)
(* denominator Unit: the model value n stands for the Python value         *)
(* n / Unit (Unit = 2: halves of a pixel, all exactly representable as     *)
(* floats).  Px(n) is the model value of the whole number n.  An angle or   *)
(* angular velocity is a Python number n + e * 2^(-TinyBits) degrees, n a  *)
(* whole number and e a small integer: the model value is                  *)
(* n * AngleScale + e, and Deg(n) is the model value of the whole number   *)
(* n.  Sums of angles are rounded as IEEE doubles round them.  Surface     *)
(* pixel addresses <<col, row>> are plain integers, as in the program.     *)
(* math.cos and math.sin are tabulated for multiples of 10 degrees to      *)
(* twelve decimal places.  Where the cosine is rational (0, 1/2 or 1 in    *)
(* size) a table also keeps how far the float the library returns lies     *)
(* from it, and the float product and sum of recalc_center are rounded as  *)
(* IEEE doubles round them.  Products stay within 32 bits for              *)
(* |2 * r.value + r.thickness| < 2048 model units (512 pixels).            *)
(***************************************************************************)
EXTENDS Integers, Sequences, FiniteSets

VARIABLES
    script,        \* the names exec(user_code) defines (GUI.execute_gui_code)
    phase,         \* "script" | "created" | "constructed" | "running" | "closed" | "failed"
    circles,       \* CirclesCollection.circles (the user's Circle objects)
    running,       \* GraphicWindow.running
    events,        \* pygame's pending event queue
    ctrl_held,     \* pygame.key.get_mods() & KMOD_CTRL: a Ctrl key is down
    image_points,  \* run(): the persistent trace surface
    image_circles, \* run(): the ring surface
    window,        \* GraphicWindow.surface (the display surface)
    shown,         \* what the last pygame.display.flip() put on screen
    ticks          \* history: loop iterations (update_angle calls) so far, saturating

vars == <<script, phase, circles, running, events, ctrl_held,
          image_points, image_circles, window, shown, ticks>>

----------------------------------------------------------------------------
(* Bounds of the model *)

MaxRotors == 3      \* longest chain a script of the main specification builds
MaxEvents == 1      \* Spec: pending events the queue holds
MaxBurst == 2       \* LiveSpec: pending events the queue holds
MaxTicks == 2       \* where the history counter ticks saturates
MaxAngle == 400     \* AngleSpec: initial angles range over -MaxAngle..MaxAngle
MaxMaskRadius == 8  \* MaskSpec: Radius fields range up to MaxMaskRadius / Unit
MaxTiny == 131072   \* AngleSpec: float angles stay within MaxTiny * 2^-60 of a whole number

----------------------------------------------------------------------------
(* Numbers *)

Unit == 2
Px(n) == n * Unit

FullTurn == 360
CosScale == 1000000

\* math.cos of 0, 10, ..., 90 degrees to twelve decimal places, cut off:
\* the cosine is CosQuarter / CosScale + CosQuarterLow / CosScale^2
CosQuarter ==
    <<1000000, 984807, 939692, 866025, 766044, 642787, 500000, 342020, 173648, 0>>

CosQuarterLow ==
    <<0, 753012, 620785, 403784, 443118, 609686, 0, 143325, 177666, 0>>

\* the entry of a table of the first quadrant for the angle a, a multiple
\* of 10, with the sign of the cosine of a
Quadrant(table, a) ==
    LET m == a % FullTurn
    IN  IF m <= 90 THEN table[(m \div 10) + 1]
        ELSE IF m <= 180 THEN -table[((180 - m) \div 10) + 1]
        ELSE IF m <= 270 THEN -table[((m - 180) \div 10) + 1]
        ELSE table[((FullTurn - m) \div 10) + 1]

\* math.cos(a / 180 * pi): the first six decimal places, and the next six
Cos(a) == Quadrant(CosQuarter, a)

CosLow(a) == Quadrant(CosQuarterLow, a)

\* math.sin(a / 180 * pi)
Sin(a) == Cos(a - 90)

SinLow(a) == CosLow(a - 90)

\* Python's int() of the quotient n / d, d > 0: truncation toward zero
TruncDiv(n, d) == IF n >= 0 THEN n \div d ELSE -((-n) \div d)

Abs(n) == IF n >= 0 THEN n ELSE -n

Sign(n) == IF n > 0 THEN 1 ELSE IF n < 0 THEN -1 ELSE 0

PowersOfTwo ==
    <<1, 2, 4, 8, 16, 32, 64, 128, 256, 512, 1024, 2048, 4096, 8192, 16384,
      32768, 65536, 131072, 262144, 524288, 1048576, 2097152, 4194304,
      8388608, 16777216, 33554432, 67108864, 134217728, 268435456,
      536870912, 1073741824>>

Pow2(k) == PowersOfTwo[k + 1]

\* the largest power of two that is at most n, n >= 1
Binade(n) ==
    CHOOSE b \in {PowersOfTwo[i] : i \in 1..Len(PowersOfTwo)} : b <= n /\ n \div 2 < b

\* A float has MantissaBits fraction bits.  The distance between a float
\* and the rational it stands for is counted in ErrUnits:
\* one ErrUnit is 2^(-ErrorBits) / (2 * Unit).
MantissaBits == 52
ErrorBits == 68

\* math.cos(a / 180 * pi) minus the exact cosine, times 2^ErrorBits, for
\* a = 0, 30, ..., 720 (entries where the exact cosine is irrational: 0)
CosErrorTable ==
    <<0, 0, 32768, 18073, 65536, 0, 0, 0, -131072, -54218, 32768, 0, 0,
      0, -81920, 90363, 229376, 0, 0, 0, 49152, -126508, -262144, 0, 0>>

\* the same for math.sin(a / 180 * pi)
SinErrorTable ==
    <<0, -16384, 0, 0, 0, -16384, 36145, -32768, 0, 0, 0, -131072, -72290,
      -212992, 0, 0, 0, -65536, 108436, 245760, 0, 0, 0, 32768, -144581>>

\* the tables cover |a| <= 720; math.cos is even, math.sin is odd
CosError(a) == IF a % 30 = 0 THEN CosErrorTable[(Abs(a) \div 30) + 1] ELSE 0

SinError(a) == IF a % 30 = 0 THEN Sign(a) * SinErrorTable[(Abs(a) \div 30) + 1] ELSE 0

\* the spacing, in ErrUnits, of the floats in the binade of n / (4 * Unit)
Ulp(n) == Binade(n) * Pow2(ErrorBits - MantissaBits - 1)

\* d rounded to a multiple of u, to the nearest, ties to the even multiple
RoundToEven(d, u) ==
    LET k  == Abs(d) \div u
        r  == Abs(d) % u
        up == 2 * r > u \/ (2 * r = u /\ k % 2 = 1)
    IN  Sign(d) * u * (IF up THEN k + 1 ELSE k)

\* In the operators below a set {Value(v) : v \in {e}} binds v to the value
\* of e, so that e is evaluated once.

\* Angles: the model value a stands for Whole(a) + Tiny(a) * 2^(-TinyBits)
\* degrees, |Tiny(a)| < AngleScale / 2
TinyBits == 60
AngleScale == 1048576

Deg(n) == n * AngleScale

Whole(a) == (a + (AngleScale \div 2)) \div AngleScale

Tiny(a) == a - Deg(Whole(a))

\* the whole number of degrees a stands for (math.cos and math.sin are
\* tabulated for whole degrees only)
WholeDegrees(a) == CHOOSE n \in {Whole(a)} : Deg(n) = a

\* the float nearest to the exact sum a of two floats: next to zero the sum
\* is exact, elsewhere its tiny part is rounded to the spacing of the floats
\* in the binade of the whole part (just under a power of two: half of it)
Float(a) ==
    LET Spacing(n, e) ==
            LET g == Binade(Abs(n)) * Pow2(TinyBits - MantissaBits)
            IN  IF Abs(n) = Binade(Abs(n)) /\ e # 0 /\ Sign(e) # Sign(n)
                THEN g \div 2 ELSE g
        Value(n, e) ==
            IF n = 0 THEN Deg(n) + e ELSE Deg(n) + RoundToEven(e, Spacing(n, e))
    IN  CHOOSE r \in {Value(n, e) : n \in {Whole(s) : s \in {a}},
                                    e \in {Tiny(s) : s \in {a}}} : TRUE

\* Python's x % 360: the exact remainder with the sign of x (math.fmod),
\* and 360 added to it, in floats, when it is negative
PyMod(x) ==
    LET Value(r) == IF r < 0 THEN Float(r + Deg(FullTurn)) ELSE r
    IN  CHOOSE m \in {Value(Sign(s) * (Abs(s) % Deg(FullTurn))) : s \in {x}} : TRUE

----------------------------------------------------------------------------
(* Coord, Radius *)

Coord(x, y) == [x |-> x, y |-> y]

Radius(value, thickness) == [value |-> value, thickness |-> thickness]

----------------------------------------------------------------------------
(* Circle *)

\* variant of larger_inner: the inner boundary counted as part of the ring
larger_or_on_inner(p, center, r_inner) ==
    (p.x - center.x) * (p.x - center.x) + (p.y - center.y) * (p.y - center.y)
        >= r_inner * r_inner

larger_inner(p, center, r_inner) ==
    (p.x - center.x) * (p.x - center.x) + (p.y - center.y) * (p.y - center.y)
        > r_inner * r_inner

smaller_outer(p, center, r_outer) ==
    (p.x - center.x) * (p.x - center.x) + (p.y - center.y) * (p.y - center.y)
        <= r_outer * r_outer

\* how many times a loop "v = lo; while v <= lo + 2 * r_outer: v += 1" runs
ScanCount(r_outer) == IF r_outer < 0 THEN 0 ELSE ((2 * r_outer) \div Unit) + 1

\* the points the two nested while loops of calc_pixels visit, in the order
\* they visit them: y outermost, both stepping by 1 from center - r_outer
ScanOrder(center, r_outer) ==
    LET n == ScanCount(r_outer)
    IN  [k \in 1..(n * n) |->
            Coord(center.x - r_outer + ((k - 1) % n) * Unit,
                  center.y - r_outer + ((k - 1) \div n) * Unit)]

calc_pixels(center, r) ==
    LET r_inner == r.value
        r_outer == r.value + r.thickness
        InRing(c) == larger_inner(c, center, r_inner) /\ smaller_outer(c, center, r_outer)
    IN  SelectSeq(ScanOrder(center, r_outer), InRing)

\* Circle.__init__
Circle(is_draw_circles, angle, r, v) ==
    LET inner_pixels == IF is_draw_circles THEN calc_pixels(Coord(0, 0), r) ELSE <<>>
    IN  [is_draw_circles |-> is_draw_circles,
         center          |-> Coord(0, 0),
         angle           |-> angle,
         angle_velocity  |-> v,
         r               |-> r,
         inner_pixels    |-> inner_pixels,
         pixels          |-> inner_pixels]

set_center(self, center) == [self EXCEPT !.center = center]

add_angle_velocity(self, other_circle) ==
    [self EXCEPT !.angle_velocity =
        Float(self.angle_velocity + other_circle.angle_velocity)]

\* variant of RecalcCoord: round(...) in place of int(...)
RecalcCoordRounded(p, avg2, c, low, err) ==
    Unit * ((2 * CosScale * p + avg2 * c + Unit * CosScale) \div (2 * Unit * CosScale))

\* The float avg_r * cos minus the exact product, in ErrUnits, where the
\* exact cosine is c2 / 2 and the float cosine is err / 2^ErrorBits off it:
\* the exact error avg2 * err rounded to the spacing of the product's binade
\* (just under a power of two the spacing is half as wide).
ProductError(avg2, c2, err) ==
    LET Rounded(a, d) ==
            IF a = 0 \/ d = 0 THEN d
            ELSE RoundToEven(d, IF a = Binade(a) /\ Sign(d) # Sign(avg2 * c2)
                                THEN Ulp(a) \div 2 ELSE Ulp(a))
    IN  CHOOSE e \in {Rounded(a, d) : a \in {Abs(avg2 * c2)}, d \in {avg2 * err}} : TRUE

\* Whether the float sum prev + avg_r * cos is closer to zero than its exact
\* value b / (4 * Unit): the exact value is a whole number other than 0, the
\* product is d ErrUnits short of it, and d is more than half the spacing of
\* the floats just under the whole number (a tie rounds to the whole number).
SumFallsShort(b, d) ==
    /\ b # 0
    /\ d # 0
    /\ b % (4 * Unit) = 0
    /\ Sign(d) # Sign(b)
    /\ \E n \in {Abs(b)} :
          \* Abs(d) > Ulp(n) / 4 just under a power of two, else > Ulp(n) / 2
          (Abs(d) - 1) \div Pow2(ErrorBits - MantissaBits - 3)
              >= (IF n = Binade(n) THEN Binade(n) ELSE 2 * Binade(n))

\* int(prev + avg_r * cos) where the exact cosine is c2 / 2
RecalcCoordRational(p, avg2, c2, err) ==
    LET Value(b, d) ==
            Unit * (IF SumFallsShort(b, d)
                    THEN TruncDiv(b, 4 * Unit) - Sign(b)
                    ELSE TruncDiv(b, 4 * Unit))
    IN  CHOOSE r \in {Value(b, d) : b \in {4 * p + avg2 * c2},
                                   d \in {ProductError(avg2, c2, err)}} : TRUE

\* int(prev + avg_r * cos) where the exact cosine is irrational: the sum is
\* no whole number, and the float lies on the same side of every whole
\* number as p / Unit + avg2 * (c + low / CosScale) / (2 * Unit * CosScale).
\* num is the product in units of 1 / den with r / CosScale of a unit left
\* over, q the whole halves of the sum, rest what is left of it in units of
\* 1 / (Unit * den).
RecalcCoordIrrational(p, avg2, c, low) ==
    LET den == 2 * Unit * CosScale
        Floor(q, rest) == (q \div Unit) + (IF rest >= Unit * den THEN 1 ELSE 0)
        Value(q, rest, r) ==
            LET whole == (Unit * r) % CosScale = 0 /\ (rest = 0 \/ rest = Unit * den)
            IN  Unit * (IF Floor(q, rest) >= 0 \/ whole
                        THEN Floor(q, rest) ELSE Floor(q, rest) + 1)
        Sum(num, r) ==
            CHOOSE v \in {Value(q, ((q % Unit) * den) + (Unit * (num % den))
                                      + ((Unit * r) \div CosScale), r) :
                            q \in {p + Unit * (num \div den)}} : TRUE
    IN  CHOOSE v \in {Sum(num, r) :
                        num \in {avg2 * c + ((avg2 * low) \div CosScale)},
                        r \in {(avg2 * low) % CosScale}} : TRUE

\* int(p + avg_r * cos) as Python computes it in floats, avg_r = avg2 / (2 * Unit):
\* c and low are the decimal places of the cosine, err the error of the
\* float cosine where the cosine is rational
RecalcCoord(p, avg2, c, low, err) ==
    LET Value(t) ==
            IF (2 * t[3]) % CosScale = 0
            THEN RecalcCoordRational(t[1], t[2], (2 * t[3]) \div CosScale, t[5])
            ELSE RecalcCoordIrrational(t[1], t[2], t[3], t[4])
    IN  CHOOSE r \in {Value(t) : t \in {<<p, avg2, c, low, err>>}} : TRUE

\* variant of recalc_center: the centre moves, the world pixels are left behind
recalc_center_stale_pixels(self, prev_circle) ==
    LET avg2  == 2 * prev_circle.r.value + prev_circle.r.thickness
        angle == WholeDegrees(self.angle)
    IN  [self EXCEPT
           !.center = Coord(RecalcCoord(prev_circle.center.x, avg2,
                                        Cos(angle), CosLow(angle), CosError(angle)),
                            RecalcCoord(prev_circle.center.y, avg2,
                                        Sin(angle), SinLow(angle), SinError(angle)))]

recalc_center(self, prev_circle) ==
    LET avg2   == 2 * prev_circle.r.value + prev_circle.r.thickness
        angle  == WholeDegrees(self.angle)
        center == Coord(RecalcCoord(prev_circle.center.x, avg2,
                                    Cos(angle), CosLow(angle), CosError(angle)),
                        RecalcCoord(prev_circle.center.y, avg2,
                                    Sin(angle), SinLow(angle), SinError(angle)))
    IN  [self EXCEPT
           !.center = center,
           !.pixels = IF self.is_draw_circles
                      THEN [i \in 1..Len(self.inner_pixels) |->
                              Coord(self.inner_pixels[i].x + center.x,
                                    self.inner_pixels[i].y + center.y)]
                      ELSE self.pixels]

\* variant of update_angle: no sign factor
update_angle_unsigned(self) ==
    [self EXCEPT !.angle = PyMod(Float(self.angle + self.angle_velocity))]

\* variant of update_angle: the sign factor applied to the remainder
update_angle_sign_outside(self) ==
    [self EXCEPT !.angle =
        (IF self.angle >= 0 THEN 1 ELSE -1)
            * PyMod(Float(self.angle + self.angle_velocity))]

\* (1 if self.angle >= 0 else -1) * (self.angle + self.angle_velocity) % 360:
\* the product is taken first, then the remainder
update_angle(self) ==
    [self EXCEPT !.angle =
        PyMod((IF self.angle >= 0 THEN 1 ELSE -1)
                  * Float(self.angle + self.angle_velocity))]

----------------------------------------------------------------------------
(* DrawableSurface, GraphicWindow.  A pygame surface is the function from  *)
(* the addresses of its painted pixels to their colour; every other pixel  *)
(* is transparent black, the value fill((0, 0, 0, 0)) gives.               *)

Blank == [p \in {} |-> "none"]

\* pygame.Surface.fill((0, 0, 0, 0))
Fill(surface) == Blank

\* pygame.Surface.blit(src, (0, 0)): the painted pixels of src are opaque
Blit(dst, src) ==
    [p \in (DOMAIN dst) \cup (DOMAIN src) |-> IF p \in DOMAIN src THEN src[p] ELSE dst[p]]

\* DrawableSurface.__init__
DrawableSurface(width, height) ==
    [surface |-> Blank, width |-> width, height |-> height]

\* draw_pixel: the addresses the two for loops write, those on the surface
Brush(self, pos, brush_size) ==
    LET pixels_offset == brush_size \div 2
        x == TruncDiv(pos.x - Px(pixels_offset), Unit)
        y == TruncDiv(pos.y - Px(pixels_offset), Unit)
    IN  {<<col, row>> \in (x .. x + brush_size) \X (y .. y + brush_size) :
            /\ 0 <= col /\ col < self.width
            /\ 0 <= row /\ row < self.height}

\* pix[col, row] = color for every address of pix
Paint(self, pix, color) ==
    [self EXCEPT !.surface =
        [p \in (DOMAIN self.surface) \cup pix |->
            IF p \in pix THEN color ELSE self.surface[p]]]

\* DrawableSurface.draw_pixel
draw_pixel(self, pos, color, brush_size) ==
    Paint(self, Brush(self, pos, brush_size), color)

\* for pixel in circle.get_pixels(): image_circles.draw_pixel(pixel, (255, 255, 255))
\* (one colour: the order of the calls does not show)
DrawPixels(self, pixels) ==
    Paint(self, UNION {Brush(self, pixels[i], 1) : i \in 1..Len(pixels)}, "white")

\* for circle in self.circles: (the ring pixels of every circle)
RECURSIVE DrawCircles(_, _, _)
DrawCircles(self, cs, i) ==
    IF i <= Len(cs)
    THEN DrawCircles(DrawPixels(self, cs[i].pixels), cs, i + 1)
    ELSE self

\* variant of Cancels: Escape is not handled
CancelsWithoutEscape(event, ctrl) ==
    \/ event.type = "QUIT"
    \/ event.type = "KEYDOWN" /\ ctrl /\ event.key = "K_s"

\* the events handle_events recognises as a request to stop; ctrl is
\* pygame.key.get_mods() & KMOD_CTRL, read when the event is handled (the
\* state of the keyboard at the poll, not event.mod)
Cancels(event, ctrl) ==
    \/ event.type = "QUIT"
    \/ event.type = "KEYDOWN" /\ event.key = "K_ESCAPE"
    \/ event.type = "KEYDOWN" /\ event.key # "K_ESCAPE" /\ ctrl /\ event.key = "K_s"

\* GraphicWindow.handle_events: the value of self.running after the loop
RECURSIVE handle_events(_, _, _, _)
handle_events(is_running, pending, i, ctrl) ==
    IF i <= Len(pending)
    THEN handle_events(IF Cancels(pending[i], ctrl) THEN FALSE ELSE is_running,
                       pending, i + 1, ctrl)
    ELSE is_running

----------------------------------------------------------------------------
(* CirclesCollection *)

\* variant of TieVelocity: every rotor gets its parent's original velocity
TieVelocityOfParentOnly(cs, i) ==
    [k \in 1..Len(cs) |-> IF k >= i THEN add_angle_velocity(cs[k], cs[k - 1]) ELSE cs[k]]

\* for i in range(1, len(circles)): circles[i].add_angle_velocity(circles[i - 1])
RECURSIVE TieVelocity(_, _)
TieVelocity(cs, i) ==
    IF i <= Len(cs)
    THEN TieVelocity([cs EXCEPT ![i] = add_angle_velocity(cs[i], cs[i - 1])], i + 1)
    ELSE cs

\* CirclesCollection.__init__, for a non-empty list
Collection(cs, first_circle_center, is_draw_circles) ==
    LET temp_circle ==
            set_center(Circle(is_draw_circles, Deg(0), Radius(Px(1), Px(1)), Deg(1)),
                       first_circle_center)
        seeded == [cs EXCEPT ![1] = recalc_center(cs[1], temp_circle)]
    IN  TieVelocity(seeded, 2)

\* for i in range(1, len(self.circles)): self.circles[i].recalc_center(self.circles[i - 1])
RECURSIVE RecalcCenters(_, _)
RecalcCenters(cs, i) ==
    IF i <= Len(cs)
    THEN CHOOSE r \in {RecalcCenters(c, i + 1) :
                         c \in {[cs EXCEPT ![i] = recalc_center(cs[i], cs[i - 1])]}} : TRUE
    ELSE cs

\* for circle in self.circles: circle.update_angle()
UpdateAngles(cs) == [i \in 1..Len(cs) |-> update_angle(cs[i])]

\* variant of Tick: the angles are updated before the centres are recomputed
TickAnglesFirst(cs) == RecalcCenters(UpdateAngles(cs), 2)

\* run(), lines 176-179: the kinematic step of one loop iteration
Tick(cs) == CHOOSE r \in {UpdateAngles(c) : c \in {RecalcCenters(cs, 2)}} : TRUE

\* variant of DrawFrame: the trace layer is cleared with the ring layer
DrawFrameClearingTrace(cs, points, rings, win, is_draw_circles, brush_line_size) ==
    LET rings1  == IF is_draw_circles
                   THEN DrawCircles([rings EXCEPT !.surface = Fill(rings.surface)], cs, 1)
                   ELSE rings
        points0 == IF is_draw_circles
                   THEN [points EXCEPT !.surface = Fill(points.surface)]
                   ELSE points
        win1    == IF is_draw_circles THEN Blit(win, rings1.surface) ELSE win
        points1 == draw_pixel(points0, cs[Len(cs)].center, "line", brush_line_size)
        win2    == Blit(win1, points1.surface)
        win3    == IF is_draw_circles THEN Blit(win2, rings1.surface) ELSE win2
    IN  [image_points  |-> points1,
         image_circles |-> rings1,
         shown         |-> win3,
         window        |-> Fill(win3)]

\* run(), lines 181-194: the drawing of one loop iteration
DrawFrame(cs, points, rings, win, is_draw_circles, brush_line_size) ==
    LET Shown(rings1, points1) ==
            LET win1 == IF is_draw_circles THEN Blit(win, rings1.surface) ELSE win
                win2 == Blit(win1, points1.surface)
            IN  IF is_draw_circles THEN Blit(win2, rings1.surface) ELSE win2
        Frame(rings1, points1, win3) ==
            [image_points  |-> points1,
             image_circles |-> rings1,
             shown         |-> win3,          \* pygame.display.flip()
             window        |-> Fill(win3)]    \* self.surface.fill((0, 0, 0, 0))
        Drawn(rings1, points1) ==
            CHOOSE f \in {Frame(rings1, points1, win3) :
                            win3 \in {Shown(rings1, points1)}} : TRUE
    IN  CHOOSE f \in
            {Drawn(rings1, points1) :
                rings1 \in {IF is_draw_circles
                            THEN DrawCircles([rings EXCEPT !.surface = Fill(rings.surface)],
                                             cs, 1)
                            ELSE rings},
                points1 \in {draw_pixel(points, cs[Len(cs)].center, "line",
                                        brush_line_size)}} : TRUE

----------------------------------------------------------------------------
(* The user's script: the names exec(user_code) leaves in gui_globals.     *)
(* circles lists the arguments of each Circle(idc, angle, R(...), v).      *)

Rotor(angle, r, v) == [angle |-> angle, r |-> r, v |-> v]

Script(cs, idc, is_draw_circles, main_circle_pos, w, h, brush_size) ==
    [circles |-> cs, idc |-> idc, is_draw_circles |-> is_draw_circles,
     main_circle_pos |-> main_circle_pos, w |-> w, h |-> h, brush_size |-> brush_size]

\* the rotors the chains of the main specification are built from:
\* R(1), R(1.5, 1), R(3, -1) and R(-1, 3)
RotorKinds ==
    { Rotor(Deg(0), Radius(Px(1), Px(1)), Deg(0)),
      Rotor(Deg(-90), Radius(Px(3) \div 2, Px(1)), Deg(90)),
      Rotor(Deg(90), Radius(Px(3), -Px(1)), Deg(-90)),
      Rotor(Deg(180), Radius(-Px(1), Px(3)), Deg(180)) }

Chains == UNION {[1..n -> RotorKinds] : n \in 0..MaxRotors}

\* chains of every length, anchored at (100.5, 100) on a 104 x 103 scene
ChainScripts ==
    {Script(cs, d, d, Coord(Px(201) \div 2, Px(100)), 104, 103, 2) :
        cs \in Chains, d \in BOOLEAN}

\* the two-rotor chain R(10, 2), R(5, 1) with velocities 0 and 10 at (100, 100)
EndToEndChain ==
    << Rotor(Deg(0), Radius(Px(10), Px(2)), Deg(0)),
       Rotor(Deg(0), Radius(Px(5), Px(1)), Deg(10)) >>

EndToEndScripts ==
    {Script(EndToEndChain, d, d, Coord(Px(100), Px(100)), 115, 115, 1) : d \in BOOLEAN}

\* chains of up to two rotors anchored at (1.5, 0.5) on a 6 x 5 scene: next
\* to the origin the float error of math.cos and math.sin reaches int()
OriginScripts ==
    {Script(cs, d, d, Coord(Px(3) \div 2, Px(1) \div 2), 6, 5, 2) :
        cs \in UNION {[1..n -> RotorKinds] : n \in 1..2}, d \in BOOLEAN}

\* a ring of radius 258 and thickness 0.5 carrying a rotor that starts at 50
\* degrees and turns by 10 a frame, anchored at (-1.5, 0), no rings drawn:
\* the rotor's centre passes within 0.0001 of a whole pixel
WideChain ==
    << Rotor(Deg(0), Radius(Px(258), Px(1) \div 2), Deg(0)),
       Rotor(Deg(50), Radius(Px(1), Px(1)), Deg(10)) >>

WideScripts ==
    {Script(WideChain, FALSE, FALSE, Coord(-(Px(3) \div 2), 0), 6, 5, 2)}

Scripts == ChainScripts \cup EndToEndScripts \cup OriginScripts \cup WideScripts

\* the events the window system can post: QUIT, and KEYDOWN of Escape, of s
\* and of another key (a)
EventKinds ==
    { [type |-> "QUIT", key |-> "none"],
      [type |-> "KEYDOWN", key |-> "K_ESCAPE"],
      [type |-> "KEYDOWN", key |-> "K_s"],
      [type |-> "KEYDOWN", key |-> "K_a"] }

----------------------------------------------------------------------------
(* The program: GUI.execute_gui_code and CirclesCollection.run *)

InitOf(scripts) ==
    /\ script \in scripts
    /\ phase = "script"
    /\ circles = <<>>
    /\ running = FALSE
    /\ events = <<>>
    /\ ctrl_held = FALSE
    /\ image_points = DrawableSurface(0, 0)
    /\ image_circles = DrawableSurface(0, 0)
    /\ window = Blank
    /\ shown = Blank
    /\ ticks = 0

Init == InitOf(Scripts)

Count(n) == IF n < MaxTicks THEN n + 1 ELSE n

\* exec(user_code): the script builds its Circle objects
ExecUserCode ==
    /\ phase = "script"
    /\ circles' = [i \in 1..Len(script.circles) |->
                     Circle(script.idc, script.circles[i].angle,
                            script.circles[i].r, script.circles[i].v)]
    /\ phase' = "created"
    /\ UNCHANGED <<script, running, events, ctrl_held, image_points, image_circles,
                   window, shown, ticks>>

\* CirclesCollection(...): circles[0] of an empty list raises IndexError
Construct ==
    /\ phase = "created"
    /\ IF Len(circles) = 0
       THEN /\ phase' = "failed"
            /\ UNCHANGED circles
       ELSE /\ phase' = "constructed"
            /\ circles' = Collection(circles, script.main_circle_pos,
                                     script.is_draw_circles)
    /\ UNCHANGED <<script, running, events, ctrl_held, image_points, image_circles,
                   window, shown, ticks>>

\* run(), lines 168-171: the window and the two surfaces
StartRun ==
    /\ phase = "constructed"
    /\ phase' = "running"
    /\ running' = TRUE
    /\ window' = Blank
    /\ image_points' = [DrawableSurface(script.w, script.h) EXCEPT !.surface = Fill(@)]
    /\ image_circles' = DrawableSurface(script.w, script.h)
    /\ UNCHANGED <<script, circles, events, ctrl_held, shown, ticks>>

\* the user or the window system posts an event while fewer than limit
\* events wait for the next pygame.event.get()
Post(limit) ==
    /\ phase = "running"
    /\ Len(events) < limit
    /\ \E e \in EventKinds : events' = Append(events, e)
    /\ UNCHANGED <<script, phase, circles, running, ctrl_held, image_points,
                   image_circles, window, shown, ticks>>

PostEvent == Post(MaxEvents)

\* the user presses or releases a Ctrl key: pygame.key.get_mods() changes
\* (the key events of the Ctrl key itself are events handle_events ignores,
\* like those of the key a)
PressOrReleaseCtrl ==
    /\ phase = "running"
    /\ ctrl_held' = ~ctrl_held
    /\ UNCHANGED <<script, phase, circles, running, events, image_points,
                   image_circles, window, shown, ticks>>

\* run(), lines 173-194: one iteration of the while loop
Iterate ==
    /\ phase = "running"
    /\ running
    /\ running' = handle_events(running, events, 1, ctrl_held)
    /\ events' = <<>>
    /\ circles' = Tick(circles)
    /\ \E frame \in {DrawFrame(circles', image_points, image_circles, window,
                                script.is_draw_circles, script.brush_size)} :
           /\ image_points' = frame.image_points
           /\ image_circles' = frame.image_circles
           /\ window' = frame.window
           /\ shown' = frame.shown
    /\ ticks' = Count(ticks)
    /\ UNCHANGED <<script, phase, ctrl_held>>

\* run(), lines 173 and 196: the while condition fails, pygame.quit()
Quit ==
    /\ phase = "running"
    /\ ~running
    /\ phase' = "closed"
    /\ UNCHANGED <<script, circles, running, events, ctrl_held, image_points,
                   image_circles, window, shown, ticks>>

Next ==
    \/ ExecUserCode \/ Construct \/ StartRun
    \/ PostEvent \/ PressOrReleaseCtrl \/ Iterate \/ Quit

Spec == Init /\ [][Next]_vars

----------------------------------------------------------------------------
(* The run loop keeps running: the interpreter executes the next iteration *)
(* (pygame.event.get() does not block) and leaves the loop once the while  *)
(* condition fails.                                                        *)

\* chains of one or two rotors with a ring of positive radius and thickness
LiveChains ==
    UNION {[1..n -> {k \in RotorKinds : k.r.value > 0 /\ k.r.thickness > 0}] :
             n \in 1..2}

LiveScripts ==
    {Script(cs, d, d, Coord(Px(201) \div 2, Px(100)), 104, 103, 2) :
        cs \in LiveChains, d \in BOOLEAN}

\* several events arrive between two polls
PostBurst == Post(MaxBurst)

LiveNext ==
    \/ ExecUserCode \/ Construct \/ StartRun
    \/ PostBurst \/ PressOrReleaseCtrl \/ Iterate \/ Quit

LiveSpec ==
    InitOf(LiveScripts) /\ [][LiveNext]_vars /\ WF_vars(Iterate) /\ WF_vars(Quit)

----------------------------------------------------------------------------
(* Circle on its own: a script that builds one Circle, and a caller of its *)
(* update_angle().                                                         *)

\* the angles followed here stay within MaxTiny * 2^-TinyBits of a whole
\* number of degrees
CallUpdateAngle ==
    /\ phase = "created"
    /\ \E i \in 1..Len(circles) :
          /\ Abs(Tiny(update_angle(circles[i]).angle)) <= MaxTiny
          /\ circles' = [circles EXCEPT ![i] = update_angle(@)]
    /\ ticks' = Count(ticks)
    /\ UNCHANGED <<script, phase, running, events, ctrl_held, image_points,
                   image_circles, window, shown>>

CircleNext == ExecUserCode \/ CallUpdateAngle

AngleVelocities == {-370, -150, -90, 0, 45, 350, 720}

\* whole numbers of degrees (Python ints)
WholeAngleScripts ==
    {Script(<<Rotor(Deg(a), Radius(Px(1), Px(1)), Deg(v))>>,
            FALSE, FALSE, Coord(0, 0), 1, 1, 1) :
        a \in (-MaxAngle)..MaxAngle, v \in AngleVelocities}

\* floats: 0.0, +-2^-60, -(2^-45 + 2^-60), 90 + 2^-46, 360 - 2^-44 and -10.0
FloatAngles ==
    {Deg(0), 1, -1, -32769, Deg(90) + 16384, Deg(FullTurn) - 65536, Deg(-10)}

\* floats: 0.0, +-2^-60, -2^-45 (half the spacing of the floats under 360),
\* +-(2^-45 + 2^-60)
FloatVelocities == {Deg(0), 1, -1, -32768, -32769, 32769}

FloatAngleScripts ==
    {Script(<<Rotor(a, Radius(Px(1), Px(1)), v)>>, FALSE, FALSE, Coord(0, 0), 1, 1, 1) :
        a \in FloatAngles, v \in FloatVelocities}

AngleScripts == WholeAngleScripts \cup FloatAngleScripts

AngleSpec == InitOf(AngleScripts) /\ [][CircleNext]_vars

MaskScripts ==
    {Script(<<Rotor(Deg(0), Radius(value, thickness), Deg(0))>>, d, d, Coord(0, 0), 1, 1, 1) :
        value \in (-Unit)..MaxMaskRadius, thickness \in (-Unit)..MaxMaskRadius,
        d \in BOOLEAN}

MaskSpec == InitOf(MaskScripts) /\ [][CircleNext]_vars

----------------------------------------------------------------------------
(* Claims *)

Built == phase \in {"constructed", "running", "closed"}

\* v[1] + ... + v[i] of the velocities the script wrote
RECURSIVE SumOfVelocities(_, _)
SumOfVelocities(rotors, i) ==
    IF i = 0 THEN 0 ELSE SumOfVelocities(rotors, i - 1) + rotors[i].v

\* C1: once the collection is constructed, and after every later tick, the
\* angular velocity of rotor i is the sum of the original velocities of the
\* rotors 0..i: the wiring is applied once, at construction.
C1_VelocityWiring ==
    Built =>
        /\ Len(circles) = Len(script.circles)
        /\ \A i \in 1..Len(circles) :
              circles[i].angle_velocity = SumOfVelocities(script.circles, i)

C1_Witness ==
    /\ phase = "running"
    /\ ticks >= 2
    /\ Len(circles) = 3
    /\ circles[2].angle_velocity # script.circles[2].v
    /\ circles[3].angle_velocity # script.circles[3].v + script.circles[2].v
    /\ circles[3].angle_velocity # 0

\* a step of the run loop that executed one iteration
IsIteration ==
    /\ phase = "running" /\ running /\ phase' = "running"
    /\ events' = <<>> /\ ctrl_held' = ctrl_held

\* C2: in every tick the centres of rotors 1..N-1 are recomputed in index
\* order from the parent's centre of this same tick, the parent's midline
\* radius and the rotor's own angle before the tick; rotor 0 keeps its centre;
\* then every rotor's angle is updated from its angle before the tick.
C2_TickOrder ==
    [][IsIteration =>
        /\ Len(circles') = Len(circles)
        /\ circles'[1].center = circles[1].center
        /\ \A i \in 2..Len(circles) :
              circles'[i].center =
                  recalc_center(circles[i],
                                [circles[i - 1] EXCEPT !.center = circles'[i - 1].center]).center
        /\ \A i \in 1..Len(circles) :
              /\ circles'[i].angle = update_angle(circles[i]).angle
              /\ circles'[i].angle_velocity = circles[i].angle_velocity
              /\ circles'[i].r = circles[i].r]_vars

C2_Witness ==
    /\ phase = "running"
    /\ ticks >= 2
    /\ Len(circles) = 3
    /\ circles[2].angle_velocity % Deg(FullTurn) # 0
    /\ circles[3].angle_velocity % Deg(FullTurn) # 0
    /\ circles[2].r.value # circles[1].r.value
    /\ circles[3].center # circles[2].center

\* C3: the chain R(10, 2) / R(5, 1), velocities 0 and 10, angles 0, anchored at
\* (100, 100): construction leaves rotor 0 at (101, 100); after exactly one
\* tick rotor 1 has angle 10 and centre (112, 100), rotor 0 is still at
\* (101, 100).
C3_EndToEnd ==
    script \in EndToEndScripts =>
        /\ Built => circles[1].center = Coord(Px(101), Px(100))
        /\ (Built /\ ticks = 0) => circles[2].angle = Deg(0)
        /\ ticks = 1 =>
              /\ circles[2].angle = Deg(10)
              /\ circles[2].center = Coord(Px(112), Px(100))
              /\ circles[1].center = Coord(Px(101), Px(100))

C3_Witness ==
    /\ script \in EndToEndScripts
    /\ phase = "running"
    /\ ticks = 1
    /\ circles[2].center = Coord(Px(112), Px(100))

\* the remainder of a by 360 that keeps the sign of a: -10 for -10
SignedRemainder(a) == IF a >= 0 THEN a % Deg(FullTurn) ELSE -((-a) % Deg(FullTurn))

\* C4 as stated: with zero velocity, one update_angle() leaves the initial
\* angle mod 360 with the sign of the initial angle (or, read as Python's
\* %, the initial angle % 360), and further updates keep it.
C4_SignPreserved ==
    (phase = "created" /\ ticks >= 1 /\ circles[1].angle_velocity = 0) =>
        circles[1].angle \in {SignedRemainder(script.circles[1].angle),
                              script.circles[1].angle % Deg(FullTurn)}

\* C4, amended: with zero velocity, one update_angle() leaves |angle| mod 360
\* (the initial angle mod 360 when it is not negative, never a negative
\* angle), and every further update_angle() leaves that value.
C4_ZeroVelocityFixed ==
    /\ [](( phase = "created" /\ ticks >= 1 /\ circles[1].angle_velocity = 0) =>
              circles[1].angle = Abs(script.circles[1].angle) % Deg(FullTurn))
    /\ [][(phase = "created" /\ ticks >= 1 /\ circles[1].angle_velocity = 0) =>
              circles'[1].angle = circles[1].angle]_vars

C4_Witness ==
    /\ phase = "created"
    /\ ticks >= 2
    /\ circles[1].angle_velocity = 0
    /\ script.circles[1].angle = Deg(-370)
    /\ circles[1].angle = Deg(10)

\* C5: for every rotor built with is_draw_circles true, in every state,
\* pixels and inner_pixels have the same length and pixels[i] is
\* inner_pixels[i] + center; inner_pixels never changes once the rotor exists.
C5_WorldPixels ==
    /\ [](\A k \in 1..Len(circles) :
            circles[k].is_draw_circles =>
                /\ Len(circles[k].pixels) = Len(circles[k].inner_pixels)
                /\ \A i \in 1..Len(circles[k].pixels) :
                      circles[k].pixels[i] =
                          Coord(circles[k].inner_pixels[i].x + circles[k].center.x,
                                circles[k].inner_pixels[i].y + circles[k].center.y))
    /\ [][phase # "script" =>
            /\ Len(circles') = Len(circles)
            /\ \A k \in 1..Len(circles) :
                  circles'[k].inner_pixels = circles[k].inner_pixels]_vars

C5_Witness ==
    /\ phase = "running"
    /\ ticks >= 2
    /\ Len(circles) >= 2
    /\ \E k \in 2..Len(circles) :
          /\ circles[k].is_draw_circles
          /\ Len(circles[k].inner_pixels) > 0
          /\ circles[k].center # Coord(0, 0)
          /\ circles[k].pixels # circles[k].inner_pixels

\* the addresses the trace layer got from the current tip
TipBrush == Brush(image_points, circles[Len(circles)].center, script.brush_size)

\* C6: every pixel of the trace layer stays set, with the line colour, in
\* every later frame: neither the per-frame clear of the ring layer nor the
\* clear of the window in flip() removes one; the in-bounds brush pixels of
\* the tip are on the layer after every iteration.
C6_TracePersists ==
    /\ []((phase \in {"running", "closed"} /\ ticks >= 1) =>
            \A p \in TipBrush :
                p \in DOMAIN image_points.surface /\ image_points.surface[p] = "line")
    /\ [][phase = "running" =>
            \A p \in DOMAIN image_points.surface :
                /\ p \in DOMAIN image_points'.surface
                /\ image_points'.surface[p] = image_points.surface[p]]_vars

C6_Witness ==
    /\ phase = "running"
    /\ ticks >= 2
    /\ script.is_draw_circles
    /\ DOMAIN image_circles.surface # {}
    /\ TipBrush # {}
    /\ \E p \in DOMAIN image_points.surface : p \notin TipBrush
    /\ \E p \in DOMAIN image_points.surface : p \in DOMAIN image_circles.surface
    /\ window = Blank

IsKey(event, key) == event.type = "KEYDOWN" /\ event.key = key

\* a QUIT or an Escape is among the pending events
QuitOrEscapePending ==
    \E i \in 1..Len(events) : events[i].type = "QUIT" \/ IsKey(events[i], "K_ESCAPE")

\* an s is among the pending events
SPending == \E i \in 1..Len(events) : IsKey(events[i], "K_s")

\* C7 as stated: every delivered cancellation, a QUIT, an Escape or an s
\* with Ctrl down, is eventually followed by the exit of the loop.
C7_DeliveredCancellationExits ==
    (phase = "running" /\ (QuitOrEscapePending \/ (SPending /\ ctrl_held)))
        ~> (phase = "closed")

\* C7, amended: the cancellation signal is a QUIT, an Escape, or an s polled
\* while a Ctrl key is down at the poll (wherever Ctrl was when s was
\* pressed).  The flag is cleared only by an iteration, and by an
\* iteration exactly when its batch of events holds a cancellation; while
\* the flag is set the next iteration can always run; once the flag is
\* cleared it stays cleared and no iteration runs again, so the exit finds
\* the centres, angles and trace pixels of the last tick; the loop is left
\* only with the flag cleared; a cleared flag and a pending QUIT or Escape
\* are each followed by the exit, and so is a pending s unless Ctrl is up
\* at some later time.
C7_Cancellation ==
    /\ [](phase = "closed" => ~running)
    /\ []((phase = "running" /\ running) => ENABLED Iterate)
    /\ [][(phase = "running" /\ running /\ ~running') =>
            /\ IsIteration
            /\ QuitOrEscapePending \/ (SPending /\ ctrl_held)]_vars
    /\ [][(IsIteration /\ (QuitOrEscapePending \/ (SPending /\ ctrl_held))) =>
            ~running']_vars
    /\ [][(phase = "running" /\ ~running) =>
            /\ ~running'
            /\ circles' = circles
            /\ image_points' = image_points
            /\ ticks' = ticks]_vars
    /\ (phase = "running" /\ ~running) ~> (phase = "closed")
    /\ (phase = "running" /\ QuitOrEscapePending) ~> (phase = "closed")
    /\ (phase = "running" /\ SPending /\ ctrl_held) ~> (phase = "closed" \/ ~ctrl_held)

C7_Witness ==
    /\ phase = "closed"
    /\ ~running
    /\ ctrl_held
    /\ ticks >= 2
    /\ DOMAIN image_points.surface # {}
    /\ circles[Len(circles)].center # Coord(0, 0)

\* C8 as stated: no chain with a negative radius or a negative thickness is
\* ever constructed, and no tick runs with one.
C8_NegativeRejected ==
    Built =>
        \A i \in 1..Len(circles) :
            circles[i].r.value >= 0 /\ circles[i].r.thickness >= 0

\* the integer offsets of the square [-(r + t), r + t]^2 in the band
\* r^2 < dx^2 + dy^2 <= (r + t)^2
LatticeRing(r) ==
    LET r_outer == r.value + r.thickness
        whole == {Px(k) : k \in (-(r_outer \div Unit)) .. (r_outer \div Unit)}
    IN  {c \in {Coord(x, y) : x \in whole, y \in whole} :
            /\ r.value * r.value < c.x * c.x + c.y * c.y
            /\ c.x * c.x + c.y * c.y <= r_outer * r_outer}

IsExactLatticeRing(mask, r) ==
    /\ {mask[i] : i \in 1..Len(mask)} = LatticeRing(r)
    /\ Cardinality({mask[i] : i \in 1..Len(mask)}) = Len(mask)
    /\ \A i \in 1..Len(mask) : mask[i].x % Unit = 0 /\ mask[i].y % Unit = 0

\* C9 as stated: for r >= 0 and t >= 0 the mask is exactly the set of integer
\* offsets of the band, each once.
C9_MaskIsLatticeRing ==
    (phase = "created" /\ circles[1].is_draw_circles
        /\ circles[1].r.value >= 0 /\ circles[1].r.thickness >= 0) =>
        IsExactLatticeRing(circles[1].inner_pixels, circles[1].r)

\* C9, amended: for r >= 0, t >= 0 and r + t a whole number the mask is
\* exactly the set of integer offsets of the band, each once.
C9_MaskIsLatticeRingWholeOuter ==
    (phase = "created" /\ circles[1].is_draw_circles
        /\ circles[1].r.value >= 0 /\ circles[1].r.thickness >= 0
        /\ (circles[1].r.value + circles[1].r.thickness) % Unit = 0) =>
        IsExactLatticeRing(circles[1].inner_pixels, circles[1].r)

C9_Witness ==
    /\ phase = "created"
    /\ circles[1].is_draw_circles
    /\ circles[1].r.value = Px(3) \div 2
    /\ circles[1].r.thickness = Px(3) \div 2
    /\ Len(circles[1].inner_pixels) = 20

\* C10 as stated: after the first update_angle() the angle is in [0, 360)
\* for good, whatever the initial angle and the velocity.
C10_AngleBelowFullTurn ==
    (phase = "created" /\ ticks >= 1) =>
        (circles[1].angle >= 0 /\ circles[1].angle < Deg(FullTurn))

\* C10, amended: after the first update_angle() the angle is in [0, 360] for
\* good, and in [0, 360) when the initial angle and the velocity are whole
\* numbers (a float sum that is negative and at most 2^-45 in size is rounded
\* up to 360.0 itself); so from the second update on, and on a first update
\* from an angle that is not negative, the sign factor is 1 and the rule is
\* angle' = (angle + velocity) % 360: the plain remainder for whole numbers,
\* Python's float sum and float remainder otherwise.
C10_AngleRange ==
    /\ []((phase = "created" /\ ticks >= 1) =>
            /\ circles[1].angle >= 0
            /\ circles[1].angle <= Deg(FullTurn)
            /\ script \in WholeAngleScripts => circles[1].angle < Deg(FullTurn))
    /\ [][(phase = "created" /\ (ticks >= 1 \/ circles[1].angle >= 0)) =>
            /\ circles'[1].angle =
                   PyMod(Float(circles[1].angle + circles[1].angle_velocity))
            /\ script \in WholeAngleScripts =>
                   circles'[1].angle =
                       (circles[1].angle + circles[1].angle_velocity) % Deg(FullTurn)]_vars

C10_Witness ==
    /\ phase = "created"
    /\ ticks >= 2
    /\ script.circles[1].angle = Deg(0)
    /\ circles[1].angle_velocity = -1
    /\ circles[1].angle = Deg(FullTurn)

====
